---- MODULE Spec2Model ----
(***************************************************************************)
(* A model of ragserver (jun76/multimodal_ragserver): the per-space vector *)
(* store manager with its fingerprint cache, the file loader, the ingest   *)
(* orchestrator, the retriever with the local reranker, and the request    *)
(* lock of the HTTP boundary.                                              *)
(*                                                                         *)
(* Abstractions.  A file's content is a version number `sha' (the SHA-256  *)
(* of its head); its size is a function of the content, its mtime grows    *)
(* with every write.  stable_id_from (UUIDv5 of the key string) is taken   *)
(* to be injective and is represented by the key itself, as a tuple.       *)
(* The order in which a backend returns its rows (insertion order for      *)
(* Chroma, id order for PGVector) is not fixed by the manager: scans that  *)
(* take "the first row of a source" are resolved by an oracle `o' that     *)
(* names, per source, the fingerprint met first.                           *)
(***************************************************************************)
EXTENDS Integers, Sequences, FiniteSets, TLC

(***************************************************************************)
(* Bounds of the model.                                                    *)
(***************************************************************************)
MaxEdits == 1             \* writes to the files, in all
NumRequests == 2          \* HTTP requests in flight or finished
MaxDocs == 3              \* documents handed to the reranker
MaxResults == 2           \* items in a rerank backend response
MaxTopk == 3              \* the reranker's own topk
MaxK == 11                \* the topk of a query
MaxScale == 2             \* TOPK_RERANK_SCALE
MaxStored == 12            \* documents in the queried collection
MaxClock == 2             \* clock readings at the downloads of a URL
MaxRawLen == 2            \* characters of a short input of the sanitisation
MaxNameLen == 1           \* characters of a provider or model name
MaxFiles == 3             \* files met by the walk of a directory
MaxUrls == 3              \* entries of a URL list
MaxImages == 3            \* image documents of one upsert_multi
NumPages == 2             \* pages of the PDF (scenario 2 of the spec)
ImagesOnLastPage == 1     \* embedded images on the PDF's last page

(***************************************************************************)
(* Program constants.                                                      *)
(***************************************************************************)
LoadLimit == 10000        \* config.py: LOAD_LIMIT default
MinLoadLimit == 1         \* config.py: load_limit must be positive
IntDefault == -1          \* metadata.py: _INT_DEFAULT (and _FLOAT_DEFAULT)
NoneVal == -2             \* Python's None as the value of metadata.get(key)
DefaultRerankTopk == 10   \* hf_rerank_manager.py: HFRerankManager(topk=10)

Sources == {"a.txt", "b.pdf"}

Ext(s) == IF s = "a.txt" THEN ".txt" ELSE ".pdf"

VARIABLES
    fs,          \* the files: source -> [mtime, sha]
    coll,        \* the backend: space key -> set of stored documents
    stores,      \* VectorStoreManager._stores: the opened space keys, in insertion order
    active,      \* VectorStoreManager._active_space ("" when _active_store is None)
    fpCache,     \* VectorStoreManager._fingerprint_cache: source -> fingerprint
    checkUpdate, \* VectorStoreManager._check_update
    loadLimit,   \* VectorStoreManager._load_limit
    embed,       \* the embedder: "local" (multimodal) or "openai" (text only)
    ingested,    \* per source: the file state at its latest fault-free ingest call
    last,        \* what the latest call did (observation)
    pc,          \* per HTTP request: where its handler coroutine is
    kind,        \* per HTTP request: which endpoint it calls
    lock,        \* _request_lock.locked()
    acq,         \* requests whose worker thread is in _request_lock.acquire()
    running,     \* requests whose core work is executing
    pending,     \* requests with a cancellation that waits for the worker thread
    call         \* the latest rerank or query call: its inputs and its result

storeVars ==
    <<fs, coll, stores, active, fpCache, checkUpdate, loadLimit, embed, ingested, last>>

lockVars == <<pc, kind, lock, acq, running, pending>>

nonStoreVars == <<lockVars, call>>

nonLockVars == <<storeVars, call>>

nonCallVars == <<storeVars, lockVars>>

vars == <<storeVars, lockVars, call>>

(***************************************************************************)
(* core/metadata.py                                                        *)
(***************************************************************************)
EMBTYPE_TEXT == "text"
EMBTYPE_IMAGE == "image"

DUMMY_FINGERPRINT == [size |-> IntDefault, mtime |-> IntDefault, sha |-> IntDefault]

\* The cache entry None (a source registered without a fingerprint).
NoneEntry == [size |-> NoneVal - 1, mtime |-> NoneVal - 1, sha |-> NoneVal - 1]

file_fingerprint(f) == [size |-> f.sha, mtime |-> f.mtime, sha |-> f.sha]

stable_id_from(key) == key

NoUri == [temp |-> FALSE, prefixed |-> FALSE, src |-> "", page |-> IntDefault, no |-> IntDefault]

\* tempfile.NamedTemporaryFile(prefix="ragserver_"): a fresh file of this call.
TempUri(s, page, no) == [temp |-> TRUE, prefixed |-> TRUE, src |-> s, page |-> page, no |-> no]

(***************************************************************************)
(* embed: space keys.  "local" is a MultimodalEmbeddingsManager, "openai"  *)
(* a text-only EmbeddingsManager.                                          *)
(***************************************************************************)
Embedders == {"local", "openai"}

IsMultimodal(e) == e = "local"

space_key_text(e) == IF e = "local" THEN "local__text" ELSE "openai__text"

space_key_multi(e) == "local__image"

Spaces == {"local__text", "local__image", "openai__text"}

Range(q) == {q[i] : i \in 1..Len(q)}

(***************************************************************************)
(* ingest/file_loader.py                                                   *)
(***************************************************************************)
\* skip_update testing only that the source is a key of the cache.
skip_update_by_key(cache, check, source) ==
    (~check) /\ source \in DOMAIN cache

\* VectorStoreManager.skip_update
skip_update(cache, check, source) ==
    (~check) /\ source \in DOMAIN cache /\ cache[source] # NoneEntry

BuildTextDocs(source, space_key, fp) ==
    { [ id |-> stable_id_from(<<EMBTYPE_TEXT, source, fp.sha, IntDefault, 0>>),
        source |-> source, fp |-> fp, space_key |-> space_key,
        embed_type |-> EMBTYPE_TEXT, page |-> IntDefault, no |-> 0, uri |-> NoUri ] }

load_text_file(cache, check, f, source, space_key) ==
    IF skip_update(cache, check, source) THEN {}
    ELSE BuildTextDocs(source, space_key, file_fingerprint(f))

LoadPdfText(f, source, space_key) ==
    LET fp == file_fingerprint(f) IN
    { [ id |-> stable_id_from(<<EMBTYPE_TEXT, source, fp.sha, page, 0>>),
        source |-> source, fp |-> fp, space_key |-> space_key,
        embed_type |-> EMBTYPE_TEXT, page |-> page, no |-> 0, uri |-> NoUri ]
      : page \in 0..(NumPages - 1) }

LoadPdfImage(f, source, space_key) ==
    LET fp == file_fingerprint(f)
        page == NumPages - 1 IN
    { [ id |-> stable_id_from(<<EMBTYPE_IMAGE, source, fp.sha, page, image_no>>),
        source |-> source, fp |-> fp, space_key |-> space_key,
        embed_type |-> EMBTYPE_IMAGE, page |-> page, no |-> image_no,
        uri |-> TempUri(source, page, image_no) ]
      : image_no \in 0..(ImagesOnLastPage - 1) }

\* <<text_docs, image_docs>>
load_pdf_file(cache, check, f, source, space_key, sk_multi) ==
    IF skip_update(cache, check, source) THEN <<{}, {}>>
    ELSE << LoadPdfText(f, source, space_key),
            IF sk_multi # "" THEN LoadPdfImage(f, source, sk_multi) ELSE {} >>

\* load_from_path on the path of one file: the dispatch on the extension.
load_from_path(cache, check, files, root, space_key, sk_multi) ==
    IF Ext(root) = ".txt"
    THEN << load_text_file(cache, check, files[root], root, space_key), {} >>
    ELSE load_pdf_file(cache, check, files[root], root, space_key, sk_multi)

(***************************************************************************)
(* store/vector_store_manager.py and store/chroma_manager.py               *)
(* A manager state `st' is a record: the manager's fields (stores, active, *)
(* cache), the backend (coll), the temp files on disk (tmp) and what the   *)
(* call has done so far (nDel, nAdd, wrote, added, failed, raised).        *)
(***************************************************************************)
RowSources(rows) == {r.source : r \in rows}

\* store.get(limit=load_limit)
\* When the scan is cut by the limit, the rows of the source o.head come first.
Rows(c, o) ==
    IF Cardinality(c) <= loadLimit THEN c
    ELSE LET H == {r \in c : r.source = o.head} IN
         IF Cardinality(H) >= loadLimit
         THEN CHOOSE R \in SUBSET H : Cardinality(R) = loadLimit
         ELSE H \cup (CHOOSE R \in SUBSET (c \ H) : Cardinality(R) = loadLimit - Cardinality(H))

\* The fingerprint of the first row of source s in a scan of rows.
RepFp(rows, s, o) ==
    LET fps == {r.fp : r \in {x \in rows : x.source = s}} IN
    IF s \in DOMAIN o.first /\ o.first[s] \in fps THEN o.first[s] ELSE CHOOSE x \in fps : TRUE

activate_space(st, space_key) ==
    IF st.active = space_key THEN st
    ELSE IF space_key \notin Range(st.stores) THEN st
    ELSE [st EXCEPT !.active = space_key]

LoadFingerprintCache(cache, rows, o) ==
    [ s \in (DOMAIN cache) \cup RowSources(rows) |->
        IF s \in RowSources(rows) /\ (s \notin DOMAIN cache \/ cache[s] = NoneEntry)
        THEN RepFp(rows, s, o)
        ELSE cache[s] ]

\* fail: "ok", "open" (the collection cannot be opened), "scan" (the scan fails)
\* opens, scans: the handles constructed and the scans started by the call
load_store_by_space_key(st, space_key, fail, o) ==
    LET s0 == [st EXCEPT !.opens = @ + 1, !.steps = Append(@, <<"load", space_key>>)]
        s1 == [s0 EXCEPT
                 !.stores = IF space_key \in Range(@) THEN @ ELSE Append(@, space_key),
                 !.active = space_key,
                 !.scans = @ + 1] IN
    IF fail = "open" THEN [s0 EXCEPT !.raised = TRUE]
    ELSE IF fail = "scan" THEN [s1 EXCEPT !.raised = TRUE]
    ELSE [s1 EXCEPT !.cache = LoadFingerprintCache(@, Rows(s1.coll[space_key], o), o)]

ExtractFingerprint(d) ==
    IF d.fp.size = NoneVal \/ d.fp.mtime = NoneVal \/ d.fp.sha = NoneVal
    THEN DUMMY_FINGERPRINT
    ELSE d.fp

FingerprintEquals(stored, current) ==
    /\ current.size # NoneVal /\ current.mtime # NoneVal /\ current.sha # NoneVal
    /\ stored = current

FilterDocsByFingerprint(cache, docs) ==
    { d \in docs :
        \/ d.source \notin DOMAIN cache
        \/ cache[d.source] = NoneEntry
        \/ ~FingerprintEquals(cache[d.source], ExtractFingerprint(d)) }

\* _select over all opened stores, in their order; the first row of the source.
GetFingerprintBySource(st, source, o) ==
    LET hit == {i \in 1..Len(st.stores) : source \in RowSources(Rows(st.coll[st.stores[i]], o))} IN
    IF hit = {} THEN NoneEntry
    ELSE LET i == CHOOSE x \in hit : \A y \in hit : x <= y IN
         RepFp(Rows(st.coll[st.stores[i]], o), source, o)

RegistFingerprintCache(st, docs, o) ==
    [ s \in (DOMAIN st.cache) \cup RowSources(docs) |->
        IF s \in DOMAIN st.cache THEN st.cache[s]
        ELSE GetFingerprintBySource(st, s, o) ]

Ids(docs) == {d.id : d \in docs}

Deleted(c, ids) == {d \in c : d.id \notin ids}

\* fault: "none", "delete", "add": what the backend fails at in this call.
upsert(st, docs, space_key, fault, o) ==
    IF docs = {} THEN st
    ELSE LET a0 == IF space_key # "" THEN activate_space(st, space_key) ELSE st
             a == [a0 EXCEPT !.steps = Append(@, <<"upsert", space_key>>)] IN
         IF a.active = "" THEN [a EXCEPT !.raised = TRUE]
         ELSE LET kept == FilterDocsByFingerprint(a.cache, docs)
                  k == a.active IN
              IF kept = {} THEN a
              ELSE IF fault = "delete"
                   THEN [a EXCEPT !.nDel = @ + 1, !.wrote = @ \cup {k}, !.failed = TRUE]
              ELSE LET b == [a EXCEPT !.nDel = @ + 1, !.wrote = @ \cup {k},
                                      !.coll[k] = Deleted(@, Ids(kept))] IN
                   IF fault = "add"
                   THEN [b EXCEPT !.nAdd = @ + 1, !.failed = TRUE]
                   ELSE [b EXCEPT !.nAdd = @ + 1, !.coll[k] = @ \cup kept,
                                  !.added = @ \cup kept]

\* ChromaManager.upsert_multi
Unlinked(tmp, docs) == tmp \ {d.uri : d \in {x \in docs : x.uri.prefixed}}

upsert_multi(st, docs, space_key, fault, o) ==
    IF docs = {} THEN st
    ELSE LET a0 == IF space_key # "" THEN activate_space(st, space_key) ELSE st
             a == [a0 EXCEPT !.steps = Append(@, <<"upsert_multi", space_key>>)] IN
         IF a.active = "" THEN a
         ELSE LET kept == FilterDocsByFingerprint(a.cache, docs)
                  k == a.active IN
              IF kept = {} THEN a
              ELSE IF fault = "delete"
                   THEN [a EXCEPT !.nDel = @ + 1, !.wrote = @ \cup {k}, !.failed = TRUE,
                                  !.raised = TRUE, !.tmp = Unlinked(@, kept)]
              ELSE LET b == [a EXCEPT !.nDel = @ + 1, !.wrote = @ \cup {k},
                                      !.coll[k] = Deleted(@, Ids(kept)),
                                      !.tmp = Unlinked(@, kept)] IN
                   IF fault = "add"
                   THEN [b EXCEPT !.nAdd = @ + 1, !.failed = TRUE, !.raised = TRUE]
                   ELSE LET c == [b EXCEPT !.nAdd = @ + 1, !.coll[k] = @ \cup kept,
                                           !.added = @ \cup kept] IN
                        [c EXCEPT !.cache = RegistFingerprintCache(c, kept, o)]

(***************************************************************************)
(* ingest/ingest.py                                                        *)
(***************************************************************************)
Faults == {"none", "open_text", "scan_text", "open_multi", "scan_multi",
           "multi_delete", "multi_add", "text_delete", "text_add"}

LoadFail(fault, which) ==
    IF fault = "open_" \o which THEN "open"
    ELSE IF fault = "scan_" \o which THEN "scan"
    ELSE "ok"

StoreFault(fault, which) ==
    IF fault = which \o "_delete" THEN "delete"
    ELSE IF fault = which \o "_add" THEN "add"
    ELSE "none"

\* The loader's temp files come into being when the documents are built.
WithTemp(st, docs) ==
    [st EXCEPT !.tmp = @ \cup {d.uri : d \in {x \in docs : x.uri.temp}},
               !.made = @ \cup {d.uri : d \in {x \in docs : x.uri.temp}}]

\* ingest_from_path with the text upsert moved before the image upsert
ingest_text_first(st, e, check, files, path, fault, o) ==
    LET sk == space_key_text(e)
        skm == space_key_multi(e)
        s1 == load_store_by_space_key(st, sk, LoadFail(fault, "text"), o)
        s2 == IF IsMultimodal(e)
              THEN load_store_by_space_key(s1, skm, LoadFail(fault, "multi"), o) ELSE s1
        docs == load_from_path(s2.cache, check, files, path, sk,
                               IF IsMultimodal(e) THEN skm ELSE "")
        s3 == [WithTemp(s2, docs[2]) EXCEPT !.steps = Append(@, <<"loader", path>>)]
        s4 == upsert(s3, docs[1], sk, StoreFault(fault, "text"), o) IN
    IF s1.raised THEN s1
    ELSE IF s2.raised THEN s2
    ELSE upsert_multi(s4, docs[2], skm, StoreFault(fault, "multi"), o)

ingest_from_path(st, e, check, files, path, fault, o) ==
    LET sk == space_key_text(e)
        s1 == load_store_by_space_key(st, sk, LoadFail(fault, "text"), o) IN
    IF s1.raised THEN s1
    ELSE IF IsMultimodal(e)
    THEN LET skm == space_key_multi(e)
             s2 == load_store_by_space_key(s1, skm, LoadFail(fault, "multi"), o) IN
         IF s2.raised THEN s2
         ELSE LET docs == load_from_path(s2.cache, check, files, path, sk, skm)
                  s3 == [WithTemp(s2, docs[2]) EXCEPT !.steps = Append(@, <<"loader", path>>)]
                  s4 == upsert_multi(s3, docs[2], skm, StoreFault(fault, "multi"), o) IN
              IF s4.raised THEN s4
              ELSE upsert(s4, docs[1], sk, StoreFault(fault, "text"), o)
    ELSE LET docs == load_from_path(s1.cache, check, files, path, sk, "")
             s3 == [s1 EXCEPT !.steps = Append(@, <<"loader", path>>)] IN
         upsert(s3, docs[1], sk, StoreFault(fault, "text"), o)

(***************************************************************************)
(* ingest/html_loader.py and ingest_from_url.  Two URLs: an HTML page      *)
(* without assets, whose documents (WebTextMetaData) have no fingerprint   *)
(* keys and an id that does not depend on the content, and a direct link   *)
(* to a PDF file, which is downloaded to a temporary file and read by the  *)
(* file loader with source = url, so that its fingerprint is the one of    *)
(* the temporary file (mtime = the time of the download).                  *)
(***************************************************************************)
Urls == {"http://site/page", "http://site/doc.pdf"}

\* HTMLLoader._is_file_url: the last path segment has a dot
IsFileUrl(url) == url \in {"http://site/doc.pdf", "http://site/logo.png"}

\* metadata.get(key) for the three fingerprint keys of a Web document
NoFingerprint == [size |-> NoneVal, mtime |-> NoneVal, sha |-> NoneVal]

\* fetchOk: WebBaseLoader.load() succeeds
LoadHtmlText(url, space_key, fetchOk) ==
    IF ~fetchOk THEN {}
    ELSE { [ id |-> stable_id_from(<<EMBTYPE_TEXT, url, IntDefault, IntDefault, 0>>),
             source |-> url, fp |-> NoFingerprint, space_key |-> space_key,
             embed_type |-> EMBTYPE_TEXT, page |-> IntDefault, no |-> 0, uri |-> NoUri ] }

\* The temporary file written by _download_direct_linked_file at time `now'
Downloaded(now) == [sha |-> 1, mtime |-> now]

\* <<text_docs, image_docs>>; fetchOk: the download succeeds
LoadDirectLinkedFile(cache, check, url, space_key, sk_multi, fetchOk, now) ==
    IF ~fetchOk THEN <<{}, {}>>
    ELSE load_pdf_file(cache, check, Downloaded(now), url, space_key, sk_multi)

\* HTMLLoader._load_from_site: [fetched, docs = <<text_docs, image_docs>>]
LoadFromSite(cache, check, url, space_key, sk_multi, fetchOk, now) ==
    IF skip_update(cache, check, url) THEN [fetched |-> FALSE, docs |-> <<{}, {}>>]
    ELSE IF IsFileUrl(url)
    THEN [fetched |-> TRUE,
          docs |-> LoadDirectLinkedFile(cache, check, url, space_key, sk_multi, fetchOk, now)]
    ELSE [fetched |-> TRUE, docs |-> <<LoadHtmlText(url, space_key, fetchOk), {}>>]

ingest_from_url(st, e, check, url, fetchOk, now, fault, o) ==
    LET sk == space_key_text(e)
        s1 == load_store_by_space_key(st, sk, LoadFail(fault, "text"), o) IN
    IF s1.raised THEN s1
    ELSE IF IsMultimodal(e)
    THEN LET skm == space_key_multi(e)
             s2 == load_store_by_space_key(s1, skm, LoadFail(fault, "multi"), o) IN
         IF s2.raised THEN s2
         ELSE LET site == LoadFromSite(s2.cache, check, url, sk, skm, fetchOk, now)
                  s3 == [WithTemp(s2, site.docs[2])
                            EXCEPT !.fetched = site.fetched,
                                   !.present = url \in DOMAIN s2.cache,
                                   !.loaded = site.docs[1] \cup site.docs[2],
                                   !.steps = Append(@, <<"loader", url>>)]
                  s4 == upsert_multi(s3, site.docs[2], skm, StoreFault(fault, "multi"), o) IN
              IF s4.raised THEN s4
              ELSE upsert(s4, site.docs[1], sk, StoreFault(fault, "text"), o)
    ELSE LET site == LoadFromSite(s1.cache, check, url, sk, "", fetchOk, now)
             s3 == [s1 EXCEPT !.fetched = site.fetched,
                              !.present = url \in DOMAIN s1.cache,
                              !.loaded = site.docs[1],
                              !.steps = Append(@, <<"loader", url>>)] IN
         upsert(s3, site.docs[1], sk, StoreFault(fault, "text"), o)

(***************************************************************************)
(* rerank/hf_rerank_manager.py: the local reranker.  A document is         *)
(* represented by whether its page_content is non-empty; the result is the *)
(* sequence of input positions (0-based, as in the code) of the documents  *)
(* returned.  A backend response is a failure or a `results' list whose    *)
(* items carry an integer index (ok) or none that can be used (a missing   *)
(* key, a non-integer: KeyError, TypeError).                               *)
(***************************************************************************)
Min(a, b) == IF a <= b THEN a ELSE b

Max(a, b) == IF a >= b THEN a ELSE b

\* documents[:limit], as positions
FirstPositions(n, limit) == [i \in 1..Min(n, limit) |-> i - 1]

RECURSIVE GetFilteredDocs(_, _)
\* The index_map of _get_filtered_docs: the positions of the non-empty documents.
GetFilteredDocs(docs, idx) ==
    IF idx >= Len(docs) THEN <<>>
    ELSE IF docs[idx + 1] THEN <<idx>> \o GetFilteredDocs(docs, idx + 1)
    ELSE GetFilteredDocs(docs, idx + 1)

\* index_map[i] of Python: negative indices count from the end, others raise IndexError.
Indexable(index_map, i) == i >= -Len(index_map) /\ i < Len(index_map)

PyIndex(index_map, i) == IF i >= 0 THEN index_map[i + 1] ELSE index_map[Len(index_map) + i + 1]

RECURSIVE MapResults(_, _, _)
MapResults(results, index_map, selected) ==
    IF results = <<>> THEN selected
    ELSE LET item == Head(results) IN
         IF ~item.ok \/ ~Indexable(index_map, item.index)
         THEN MapResults(Tail(results), index_map, selected)
         ELSE LET mapped_idx == PyIndex(index_map, item.index) IN
              MapResults(Tail(results), index_map,
                         IF mapped_idx \in Range(selected) THEN selected
                         ELSE Append(selected, mapped_idx))

RECURSIVE PadFromHead(_, _, _, _)
PadFromHead(selected, idx, n, limit) ==
    IF idx >= n THEN selected
    ELSE LET s2 == IF idx \in Range(selected) THEN selected ELSE Append(selected, idx) IN
         IF Len(s2) >= limit THEN s2 ELSE PadFromHead(s2, idx + 1, n, limit)

GetSelectedIndices(results, index_map, n, limit) ==
    LET selected == MapResults(results, index_map, <<>>) IN
    IF selected = <<>> THEN <<>>
    ELSE IF Len(selected) < limit THEN PadFromHead(selected, 0, n, limit)
    ELSE selected

\* compress_documents without the truncation of its last line.
compress_documents_untruncated(documents, topk, resp) ==
    IF Len(documents) = 0 THEN <<>>
    ELSE LET limit == IF topk > 0 THEN topk ELSE Len(documents)
             index_map == GetFilteredDocs(documents, 0) IN
         IF index_map = <<>> THEN FirstPositions(Len(documents), limit)
         ELSE IF resp.fail THEN FirstPositions(Len(documents), limit)
         ELSE LET selected_indices ==
                      GetSelectedIndices(resp.results, index_map, Len(documents), limit) IN
              IF Len(selected_indices) = 0 THEN FirstPositions(Len(documents), limit)
              ELSE selected_indices

compress_documents(documents, topk, resp) ==
    IF Len(documents) = 0 THEN <<>>
    ELSE LET limit == IF topk > 0 THEN topk ELSE Len(documents)
             index_map == GetFilteredDocs(documents, 0) IN
         IF index_map = <<>> THEN FirstPositions(Len(documents), limit)
         ELSE IF resp.fail THEN FirstPositions(Len(documents), limit)
         ELSE LET selected_indices ==
                      GetSelectedIndices(resp.results, index_map, Len(documents), limit) IN
              IF Len(selected_indices) = 0 THEN FirstPositions(Len(documents), limit)
              ELSE SubSeq(selected_indices, 1, Min(limit, Len(selected_indices)))

\* The topk of the request payload sent to the backend.
PayloadTopk(documents, topk) ==
    Min(IF topk > 0 THEN topk ELSE Len(documents), Len(GetFilteredDocs(documents, 0)))

(***************************************************************************)
(* retrieval/retriever.py: query_text (query_text_multi has the same       *)
(* arithmetic).  The collection holds n documents with non-empty text; the *)
(* store returns the min(topk, n) nearest.  The rerank server              *)
(* (rerank_server/hf_rerank_server.py) answers with the payload's topk     *)
(* best indices, here in ascending or descending order, or fails.          *)
(***************************************************************************)
ServerResponse(m, topk, order) ==
    [fail |-> order = "fail",
     results |-> [i \in 1..Min(topk, m) |->
                    [ok |-> TRUE, index |-> IF order = "asc" THEN i - 1 ELSE m - i]]]

\* VectorStoreManager.query: similarity_search_by_vector(k=topk) on n stored documents.
StoreQuery(n, topk) == [i \in 1..Min(n, topk) |-> TRUE]

query_text(topk, topk_rerank_scale, n, rerank, order) ==
    LET topk_scaled == topk * Max(1, topk_rerank_scale)
        docs == StoreQuery(n, topk_scaled) IN
    IF Len(docs) = 0
    THEN [requested |-> topk_scaled, candidates |-> 0, out |-> <<>>]
    ELSE IF rerank = "none"
    THEN [requested |-> topk_scaled, candidates |-> Len(docs),
          out |-> FirstPositions(Len(docs), Min(topk, Len(docs)))]
    ELSE LET scaled_len == Len(docs)
             resp == ServerResponse(Len(docs), PayloadTopk(docs, DefaultRerankTopk), order)
             reranked == compress_documents(docs, DefaultRerankTopk, resp) IN
         [requested |-> topk_scaled, candidates |-> scaled_len,
          out |-> SubSeq(reranked, 1, Min(Len(reranked), Min(scaled_len, topk)))]

\* RerankManager.rerank: raises RuntimeError when compress_documents raises.
\* compress_documents catches every exception of _request_post and answers
\* documents[:limit], so no failure of the backend call arrives here.
RerankManager_rerank(docs, topk, resp) ==
    [raised |-> FALSE, out |-> compress_documents(docs, topk, resp)]

\* What embed_image([path]) returns: [] ("none"), [[]] ("empty") or a vector.
QueryVectors == {"none", "empty", "ok"}

\* query_image without the test of the query vector.
query_image_unchecked(topk, n, vec, loadFail) ==
    IF loadFail THEN [raised |-> TRUE, out |-> <<>>, backend |-> {"open"}]
    ELSE [raised |-> FALSE,
          out |-> IF vec = "ok" THEN FirstPositions(n, topk) ELSE <<>>,
          backend |-> {"open", "get", "search"}]

\* backend: the operations done on the store backend (open the collection, get
\* the rows for the fingerprint cache, similarity search).
query_image(topk, n, vec, loadFail) ==
    IF loadFail THEN [raised |-> TRUE, out |-> <<>>, backend |-> {"open"}]
    ELSE IF vec \in {"none", "empty"}
    THEN [raised |-> FALSE, out |-> <<>>, backend |-> {"open", "get"}]
    ELSE [raised |-> FALSE, out |-> FirstPositions(n, topk),
          backend |-> {"open", "get", "search"}]

NoResp == [fail |-> FALSE, results |-> <<>>]

CallInit ==
    call = [op |-> "none", docs |-> <<>>, topk |-> 0, resp |-> NoResp, out |-> <<>>,
            k |-> 0, s |-> 0, n |-> 0, rerank |-> "none", order |-> "asc",
            requested |-> 0, candidates |-> 0,
            raised |-> FALSE, vec |-> "ok", loadFail |-> FALSE, backend |-> {}]

(***************************************************************************)
(* main.py: the request lock.  Every handler does                          *)
(*     await run_in_threadpool(_request_lock.acquire)                      *)
(*     try: <core work>  finally: _request_lock.release()                  *)
(* The core work of ingest and query runs in a worker thread               *)
(* (run_in_threadpool), that of upload in the coroutine itself (it awaits  *)
(* file reads and writes), that of reload in the coroutine without any     *)
(* await.                                                                  *)
(***************************************************************************)
Requests == 1..NumRequests

Kinds == {"ingest", "query", "upload", "reload"}

Threaded == {"ingest", "query"}

LockInit ==
    /\ pc = [r \in Requests |-> "idle"]
    /\ kind = [r \in Requests |-> "none"]
    /\ lock = FALSE
    /\ acq = {}
    /\ running = {}
    /\ pending = {}

\* The handler reaches `await run_in_threadpool(_request_lock.acquire)'.
Arrive(r, k) ==
    /\ pc[r] = "idle"
    /\ pc' = [pc EXCEPT ![r] = "acquiring"]
    /\ kind' = [kind EXCEPT ![r] = k]
    /\ acq' = acq \cup {r}
    /\ UNCHANGED <<lock, running, pending>>
    /\ UNCHANGED nonLockVars

\* The worker thread's _request_lock.acquire() returns; the handler, if it still
\* waits for it, resumes in front of its try block.
ThreadAcquire(r) ==
    /\ r \in acq
    /\ ~lock
    /\ lock' = TRUE
    /\ acq' = acq \ {r}
    /\ pc' = [pc EXCEPT ![r] = IF @ = "acquiring" THEN "holding" ELSE @]
    /\ UNCHANGED <<kind, running, pending>>
    /\ UNCHANGED nonLockVars

\* The handler enters its try block and starts the core work.  A cancellation
\* that was waiting is raised at the first await inside the try block (reload
\* has none), and the finally clause releases the lock.
EnterBody(r) ==
    /\ pc[r] = "holding"
    /\ IF r \in pending /\ kind[r] # "reload"
       THEN /\ pc' = [pc EXCEPT ![r] = "cancelled"]
            /\ lock' = FALSE
            /\ UNCHANGED running
       ELSE /\ pc' = [pc EXCEPT ![r] = "working"]
            /\ running' = running \cup {r}
            /\ UNCHANGED lock
    /\ UNCHANGED <<kind, acq, pending>>
    /\ UNCHANGED nonLockVars

\* The core work ends; the handler, if it still waits for it, runs its finally
\* clause.
FinishBody(r) ==
    /\ r \in running
    /\ running' = running \ {r}
    /\ IF pc[r] = "working"
       THEN /\ pc' = [pc EXCEPT ![r] = IF r \in pending THEN "cancelled" ELSE "done"]
            /\ lock' = FALSE
       ELSE UNCHANGED <<pc, lock>>
    /\ UNCHANGED <<kind, acq, pending>>
    /\ UNCHANGED nonLockVars

\* The request's task is cancelled and CancelledError is raised at the await the
\* handler is suspended in; a worker thread that was started goes on.
CancelNow(r) ==
    /\ \/ /\ pc[r] = "acquiring"
          /\ pc' = [pc EXCEPT ![r] = "cancelled"]
          /\ UNCHANGED <<kind, lock, acq, running, pending>>
       \/ /\ pc[r] = "working"
          /\ kind[r] \in Threaded
          /\ pc' = [pc EXCEPT ![r] = "cancelled"]
          /\ lock' = FALSE
          /\ UNCHANGED <<kind, acq, running, pending>>
       \/ /\ pc[r] = "working"
          /\ kind[r] = "upload"
          /\ pc' = [pc EXCEPT ![r] = "cancelled"]
          /\ lock' = FALSE
          /\ running' = running \ {r}
          /\ UNCHANGED <<kind, acq, pending>>
    /\ UNCHANGED nonLockVars

\* The request is cancelled while the await on the worker thread is shielded:
\* the cancellation is delivered when the thread has returned.
CancelShielded(r) ==
    /\ \/ pc[r] = "acquiring"
       \/ pc[r] = "working" /\ kind[r] \in Threaded
    /\ r \notin pending
    /\ pending' = pending \cup {r}
    /\ UNCHANGED <<pc, kind, lock, acq, running>>
    /\ UNCHANGED nonLockVars

LockNext ==
    \/ \E r \in Requests, k \in Kinds : Arrive(r, k)
    \/ \E r \in Requests : ThreadAcquire(r)
    \/ \E r \in Requests : EnterBody(r)
    \/ \E r \in Requests : FinishBody(r)
    \/ \E r \in Requests : CancelNow(r)
    \/ \E r \in Requests : CancelShielded(r)

(***************************************************************************)
(* The state machine of the store: files are written, the ingest entry     *)
(* point is called, the store manager is rebuilt (POST /v1/reload).        *)
(***************************************************************************)
NotYet == [mtime |-> IntDefault, sha |-> IntDefault]

NoCall == [op |-> "none", path |-> "", space |-> "", fault |-> "none",
           raised |-> FALSE, failed |-> FALSE, nDel |-> 0, nAdd |-> 0,
           wrote |-> {}, added |-> {}, tmpLeft |-> {}, unchanged |-> FALSE,
           emptyBefore |-> FALSE, staleBefore |-> FALSE, fp |-> DUMMY_FINGERPRINT,
           result |-> FALSE, fetched |-> FALSE, present |-> FALSE, fetchOk |-> FALSE,
           loaded |-> {}, opens |-> 0, scans |-> 0, loadedBefore |-> FALSE,
           steps |-> <<>>]

CallStart ==
    [stores |-> stores, active |-> active, cache |-> fpCache, coll |-> coll,
     tmp |-> {}, made |-> {}, nDel |-> 0, nAdd |-> 0, wrote |-> {}, added |-> {},
     failed |-> FALSE, raised |-> FALSE, fetched |-> FALSE, present |-> FALSE,
     loaded |-> {}, opens |-> 0, scans |-> 0, steps |-> <<>>]

RECURSIVE SumOver(_, _)
SumOver(f, S) ==
    IF S = {} THEN 0
    ELSE LET x == CHOOSE y \in S : TRUE IN f[x] + SumOver(f, S \ {x})

Edits == SumOver([s \in Sources |-> fs[s].mtime], Sources)

StoredOf(c, s) == UNION {{d \in c[k] : d.source = s} : k \in Spaces}

StoredFps(s) == {d.fp : d \in StoredOf(coll, s)}

\* The scan orders that can matter: per source, a fingerprint that is or becomes stored.
FirstFps ==
    {f \in [Sources -> UNION {StoredFps(s) \cup {file_fingerprint(fs[s])} : s \in Sources}] :
        \A s \in Sources : f[s] \in StoredFps(s) \cup {file_fingerprint(fs[s])}}

\* The order of the rows matters only where a scan can be cut by the limit.
Heads == IF loadLimit < LoadLimit THEN Sources ELSE {CHOOSE s \in Sources : TRUE}

Oracles == [first : FirstFps, head : Heads]

Observed(op, path, space, fault, r) ==
    [op |-> op, path |-> path, space |-> space, fault |-> fault,
     raised |-> r.raised, failed |-> r.failed, nDel |-> r.nDel, nAdd |-> r.nAdd,
     wrote |-> r.wrote, added |-> r.added, tmpLeft |-> r.tmp \cap r.made,
     unchanged |-> (path \in Sources /\ ingested[path] = fs[path]),
     emptyBefore |-> (\A k \in Spaces : coll[k] = {}),
     staleBefore |-> (path \in Sources /\
                      \E d \in StoredOf(coll, path) : d.fp.sha # file_fingerprint(fs[path]).sha),
     fp |-> IF path \in Sources THEN file_fingerprint(fs[path]) ELSE DUMMY_FINGERPRINT,
     result |-> FALSE, fetched |-> r.fetched, present |-> r.present, fetchOk |-> FALSE,
     loaded |-> r.loaded, opens |-> r.opens, scans |-> r.scans,
     loadedBefore |-> space \in Range(stores), steps |-> r.steps]

Commit(r) ==
    /\ stores' = r.stores
    /\ active' = r.active
    /\ fpCache' = r.cache
    /\ coll' = r.coll

StoreInit ==
    /\ fs = [s \in Sources |-> [mtime |-> 0, sha |-> 0]]
    /\ coll = [k \in Spaces |-> {}]
    /\ stores = <<>>
    /\ active = ""
    /\ fpCache = <<>>
    /\ checkUpdate \in BOOLEAN
    /\ loadLimit = LoadLimit
    /\ embed \in Embedders
    /\ ingested = [s \in Sources |-> NotYet]
    /\ last = NoCall

\* POST /v1/ingest/path
IngestPath(path, fault, o) ==
    LET r == ingest_from_path(CallStart, embed, checkUpdate, fs, path, fault, o) IN
    /\ Commit(r)
    /\ ingested' = [ingested EXCEPT ![path] =
                      IF fault = "none" /\ ~r.raised THEN fs[path] ELSE NotYet]
    /\ last' = Observed("ingest", path, "", fault, r)
    /\ UNCHANGED <<fs, checkUpdate, loadLimit, embed>>
    /\ UNCHANGED nonStoreVars

\* The file is rewritten with the same content (only its mtime moves).
Touch(s) ==
    /\ Edits < MaxEdits
    /\ fs' = [fs EXCEPT ![s].mtime = @ + 1]
    /\ last' = NoCall
    /\ UNCHANGED <<coll, stores, active, fpCache, checkUpdate, loadLimit, embed, ingested>>
    /\ UNCHANGED nonStoreVars

\* The file is rewritten with new content.
Modify(s) ==
    /\ Edits < MaxEdits
    /\ fs' = [fs EXCEPT ![s].mtime = @ + 1, ![s].sha = @ + 1]
    /\ last' = NoCall
    /\ UNCHANGED <<coll, stores, active, fpCache, checkUpdate, loadLimit, embed, ingested>>
    /\ UNCHANGED nonStoreVars

\* POST /v1/reload {target: store}: _create_store builds a new manager.
ReloadStore ==
    /\ stores' = <<>>
    /\ active' = ""
    /\ fpCache' = <<>>
    /\ last' = NoCall
    /\ UNCHANGED <<fs, coll, checkUpdate, loadLimit, embed, ingested>>
    /\ UNCHANGED nonStoreVars

StoreNext ==
    \/ \E p \in Sources, fault \in Faults, o \in Oracles : IngestPath(p, fault, o)
    \/ \E s \in Sources : Touch(s)
    \/ \E s \in Sources : Modify(s)
    \/ ReloadStore

Init == StoreInit /\ LockInit /\ CallInit

Next == StoreNext

Spec == Init /\ [][Next]_vars

(***************************************************************************)
(* Properties of the store and of ingest, stated on Spec.                  *)
(***************************************************************************)
TextDocsOf(s) == {d \in coll[space_key_text(embed)] : d.source = s}

ImageDocsOf(s) == {d \in coll[space_key_multi(embed)] : d.source = s}

\* C1: when the file of a source is the same as at the previous (fault-free)
\* ingest call of that source, the ingest call performs no delete and no add
\* on the vector store, whatever was ingested before and whatever check_update.
C1_UnchangedSourceNoWrites ==
    (last.op = "ingest" /\ last.unchanged /\ last.fault = "none")
        => (last.nDel = 0 /\ last.nAdd = 0)

\* C3: with a multimodal embedder and an empty store, the ingest of the PDF
\* persists every text document in the text space and every image document in
\* the image space, all with pairwise distinct ids.
C3_PdfTextAndImagesPersisted ==
    (last.op = "ingest" /\ last.path = "b.pdf" /\ IsMultimodal(embed)
        /\ last.emptyBefore /\ last.fault = "none")
        => /\ Cardinality(TextDocsOf("b.pdf")) = NumPages
           /\ Cardinality(ImageDocsOf("b.pdf")) = ImagesOnLastPage
           /\ Cardinality(Ids(TextDocsOf("b.pdf")) \cup Ids(ImageDocsOf("b.pdf")))
                = NumPages + ImagesOnLastPage

\* C4: when an indexed source is ingested again with changed content and the
\* upsert keeps its documents (the cached fingerprint differs), the collection
\* afterwards holds documents of the new version and none of a previous version.
C4_ChangedSourceReplaced ==
    (last.op = "ingest" /\ last.fault = "none" /\ last.staleBefore /\ last.added # {})
        => /\ \E d \in StoredOf(coll, last.path) : d.fp.sha = last.fp.sha
           /\ \A d \in StoredOf(coll, last.path) : d.fp.sha = last.fp.sha

\* C7: every temp file the loader created during an ingest call is unlinked
\* when the call returns, whether the upsert succeeded, raised or was skipped.
C7_TempFilesUnlinked ==
    last.op = "ingest" => last.tmpLeft = {}

\* C8: when the backend's delete or add fails during upsert or upsert_multi,
\* the ingest entry point raises.
C8_StoreFailureRaises ==
    (last.op = "ingest" /\ last.failed) => last.raised

(***************************************************************************)
(* The store manager's public API called directly: load_store_by_space_key,*)
(* activate_space, upsert and upsert_multi in any order, on any space key. *)
(***************************************************************************)
ApiSpaces == {"local__text", "local__image"}

ApiInit ==
    /\ fs = [s \in Sources |-> [mtime |-> 0, sha |-> 0]]
    /\ coll = [k \in Spaces |-> {}]
    /\ stores = <<>>
    /\ active = ""
    /\ fpCache = <<>>
    /\ checkUpdate \in BOOLEAN
    /\ loadLimit \in {MinLoadLimit, LoadLimit}
    /\ embed = "local"
    /\ ingested = [s \in Sources |-> NotYet]
    /\ last = NoCall
    /\ LockInit
    /\ CallInit

ApiLoad(space_key, fail, o) ==
    LET r == load_store_by_space_key(CallStart, space_key, fail, o) IN
    /\ Commit(r)
    /\ last' = Observed("load", "", space_key, fail, r)
    /\ UNCHANGED <<fs, checkUpdate, loadLimit, embed, ingested>>
    /\ UNCHANGED nonStoreVars

ApiActivate(space_key) ==
    LET r == activate_space(CallStart, space_key) IN
    /\ Commit(r)
    /\ last' = Observed("activate", "", space_key, "none", r)
    /\ UNCHANGED <<fs, checkUpdate, loadLimit, embed, ingested>>
    /\ UNCHANGED nonStoreVars

ApiUpsert(space_key, fault, o) ==
    LET docs == BuildTextDocs("a.txt", space_key, file_fingerprint(fs["a.txt"]))
        r == upsert(CallStart, docs, space_key, fault, o) IN
    /\ Commit(r)
    /\ last' = Observed("upsert", "", space_key, fault, r)
    /\ UNCHANGED <<fs, checkUpdate, loadLimit, embed, ingested>>
    /\ UNCHANGED nonStoreVars

ApiUpsertMulti(space_key, fault, o) ==
    LET docs == LoadPdfImage(fs["b.pdf"], "b.pdf", space_key)
        r == upsert_multi(WithTemp(CallStart, docs), docs, space_key, fault, o) IN
    /\ Commit(r)
    /\ last' = Observed("upsert_multi", "", space_key, fault, r)
    /\ UNCHANGED <<fs, checkUpdate, loadLimit, embed, ingested>>
    /\ UNCHANGED nonStoreVars

ApiSkipUpdate(source) ==
    /\ Commit(CallStart)
    /\ last' = [Observed("skip_update", source, "", "none", CallStart)
                    EXCEPT !.result = skip_update(fpCache, checkUpdate, source)]
    /\ UNCHANGED <<fs, checkUpdate, loadLimit, embed, ingested>>
    /\ UNCHANGED nonStoreVars

ApiNext ==
    \/ \E s \in Sources : ApiSkipUpdate(s)
    \/ \E k \in ApiSpaces, fail \in {"ok", "open", "scan"}, o \in Oracles : ApiLoad(k, fail, o)
    \/ \E k \in ApiSpaces : ApiActivate(k)
    \/ \E k \in ApiSpaces, fault \in {"none", "delete", "add"}, o \in Oracles : ApiUpsert(k, fault, o)
    \/ \E k \in ApiSpaces, fault \in {"none", "delete", "add"}, o \in Oracles : ApiUpsertMulti(k, fault, o)

SpecApi == ApiInit /\ [][ApiNext]_vars

\* C2: upsert(docs, space_key=K) and upsert_multi(docs, space_key=K) delete and
\* add only in the collection K, in every state of the manager (K not loaded,
\* another space active, a load that failed before).
C2_WritesOnlyToGivenSpace ==
    last.op \in {"upsert", "upsert_multi"} => last.wrote \subseteq {last.space}

(***************************************************************************)
(* The HTTP boundary: requests, the request lock and cancellations.        *)
(***************************************************************************)
StoreIdle ==
    /\ fs = [s \in Sources |-> [mtime |-> 0, sha |-> 0]]
    /\ coll = [k \in Spaces |-> {}]
    /\ stores = <<>>
    /\ active = ""
    /\ fpCache = <<>>
    /\ checkUpdate = FALSE
    /\ loadLimit = LoadLimit
    /\ embed = "local"
    /\ ingested = [s \in Sources |-> NotYet]
    /\ last = NoCall

LockStart == StoreIdle /\ LockInit /\ CallInit

SpecLock == LockStart /\ [][LockNext]_vars

\* The worker threads and the event loop keep running.
LockFairness ==
    \A r \in Requests :
        /\ WF_vars(ThreadAcquire(r))
        /\ WF_vars(EnterBody(r))
        /\ WF_vars(FinishBody(r))

FairSpecLock ==
    LockStart /\ [][LockNext]_vars /\ LockFairness

\* C5: in every interleaving of requests, reloads and cancellations at most one
\* core work (ingest, upload, reload, query) executes at a time.
C5_OneBodyAtATime ==
    Cardinality(running) <= 1

\* C6: whenever the request lock is held it is eventually released, and every
\* request waiting for the lock eventually stops waiting, also when requests
\* are cancelled while waiting for the lock or while their core work runs.
C6_LockEventuallyReleased ==
    /\ lock ~> ~lock
    /\ \A r \in Requests : (pc[r] = "acquiring") ~> (pc[r] # "acquiring")

(***************************************************************************)
(* The retriever with the local reranker, called with any topk, scale and  *)
(* collection size.                                                        *)
(***************************************************************************)
QueryInit ==
    /\ StoreIdle
    /\ LockInit
    /\ call \in {[op |-> "ask", docs |-> <<>>, topk |-> DefaultRerankTopk, resp |-> NoResp,
                  out |-> <<>>, k |-> k, s |-> s, n |-> n, rerank |-> rerank, order |-> order,
                  requested |-> 0, candidates |-> 0,
                  raised |-> FALSE, vec |-> "ok", loadFail |-> FALSE, backend |-> {}] :
                    k \in 1..MaxK, s \in 1..MaxScale, n \in 0..MaxStored,
                    rerank \in {"none", "local"}, order \in {"asc", "desc", "fail"}}
            \cup
            {[op |-> "ask_image", docs |-> <<>>, topk |-> DefaultRerankTopk, resp |-> NoResp,
              out |-> <<>>, k |-> k, s |-> 1, n |-> n, rerank |-> "none", order |-> "asc",
              requested |-> 0, candidates |-> 0,
              raised |-> FALSE, vec |-> vec, loadFail |-> loadFail, backend |-> {}] :
                k \in 1..MaxK, n \in 0..MaxStored, vec \in QueryVectors,
                loadFail \in BOOLEAN}

QueryText ==
    LET r == query_text(call.k, call.s, call.n, call.rerank, call.order) IN
    /\ call.op = "ask"
    /\ call' = [call EXCEPT !.op = "query", !.out = r.out,
                            !.requested = r.requested, !.candidates = r.candidates]
    /\ UNCHANGED nonCallVars

\* POST /v1/query/image
QueryImage ==
    LET r == query_image(call.k, call.n, call.vec, call.loadFail) IN
    /\ call.op = "ask_image"
    /\ call' = [call EXCEPT !.op = "query_image", !.out = r.out, !.raised = r.raised,
                            !.backend = r.backend]
    /\ UNCHANGED nonCallVars

QueryNext == QueryText \/ QueryImage

SpecQuery == QueryInit /\ [][QueryNext]_vars

\* C9: in a text query with a reranker, topk k and scale s >= 1, k*s candidates
\* are requested from the store and min(k, number of candidates returned)
\* documents are returned, for every k.
C9_OverFetchAndResultLength ==
    (call.op = "query" /\ call.rerank = "local")
        => /\ call.requested = call.k * call.s
           /\ Len(call.out) = Min(call.k, call.candidates)

(***************************************************************************)
(* The local reranker on any document list and any backend response.       *)
(***************************************************************************)
DocLists == UNION {[1..n -> BOOLEAN] : n \in 0..MaxDocs}

IndexValues == (-(MaxDocs + 1))..(MaxDocs + 1)

Items == [ok : BOOLEAN, index : IndexValues]

Responses ==
    {[fail |-> TRUE, results |-> <<>>]} \cup
    {[fail |-> FALSE, results |-> rs] : rs \in UNION {[1..n -> Items] : n \in 0..MaxResults}}

RerankInit ==
    /\ StoreIdle
    /\ LockInit
    /\ call \in {[op |-> "docs", docs |-> docs, topk |-> topk, resp |-> resp, out |-> <<>>,
                  k |-> 0, s |-> 0, n |-> 0, rerank |-> "local", order |-> "asc",
                  requested |-> 0, candidates |-> 0,
                  raised |-> FALSE, vec |-> "ok", loadFail |-> FALSE, backend |-> {}] :
                    docs \in DocLists, topk \in 1..MaxTopk, resp \in Responses}

\* RerankManager.rerank -> HFRerank.compress_documents
Rerank ==
    /\ call.op = "docs"
    /\ call' = [call EXCEPT !.op = "rerank",
                            !.out = RerankManager_rerank(call.docs, call.topk, call.resp).out,
                            !.raised = RerankManager_rerank(call.docs, call.topk, call.resp).raised]
    /\ UNCHANGED nonCallVars

RerankNext == Rerank

SpecRerank == RerankInit /\ [][RerankNext]_vars

\* C10: for every document list and every backend response the local reranker
\* returns at most topk documents, each one a document of the input, and no
\* input position twice.
C10_RerankOutputWithinInput ==
    call.op = "rerank"
        => /\ Len(call.out) <= call.topk
           /\ \A i \in 1..Len(call.out) : call.out[i] \in 0..(Len(call.docs) - 1)
           /\ \A i, j \in 1..Len(call.out) : i # j => call.out[i] # call.out[j]

\* A response whose first index is negative and whose second index names the
\* same document again was answered with topk >= 2 documents of the input
\* (the rest padded from the head).
C10_Witness ==
    /\ call.op = "rerank"
    /\ ~call.resp.fail
    /\ Len(call.resp.results) = 2
    /\ call.resp.results[1].ok /\ call.resp.results[2].ok
    /\ call.resp.results[1].index = -1
    /\ call.resp.results[2].index = Len(GetFilteredDocs(call.docs, 0)) - 1
    /\ Len(call.docs) = MaxDocs
    /\ call.topk >= 2
    /\ Len(call.out) = call.topk

\* C25: for a backend response with results, the reranker returns the result
\* indices that name a submitted document (0 .. non-empty count - 1), mapped
\* to input positions, in backend order without repetitions, then (if these
\* are fewer than topk) the other input positions in input order, all cut to
\* topk; the topk submitted is min(topk, number of non-empty documents).
C25_RemapPadTruncate ==
    LET index_map == GetFilteredDocs(call.docs, 0)
        results == call.resp.results
        valid(i) == results[i].ok /\ results[i].index \in 0..(Len(index_map) - 1)
        mapped(i) == index_map[results[i].index + 1]
        first(i) == valid(i) /\ \A j \in 1..(i - 1) : valid(j) => mapped(j) # mapped(i)
        kept == SelectSeq([i \in 1..Len(results) |-> i], first)
        selected == [i \in 1..Len(kept) |-> mapped(kept[i])]
        unselected(x) == \A i \in 1..Len(selected) : selected[i] # x
        rest == SelectSeq([i \in 1..Len(call.docs) |-> i - 1], unselected)
        all == IF Len(selected) < call.topk THEN selected \o rest ELSE selected IN
    (call.op = "rerank" /\ ~call.resp.fail /\ results # <<>> /\ index_map # <<>>)
        => /\ call.out = SubSeq(all, 1, Min(call.topk, Len(all)))
           /\ PayloadTopk(call.docs, call.topk) = Min(call.topk, Len(index_map))

\* C11: when the call of the rerank backend fails, rerank(docs, query) raises
\* and returns no document list.
C11_BackendFailureRaises ==
    (call.op = "rerank" /\ call.resp.fail /\ Len(GetFilteredDocs(call.docs, 0)) > 0)
        => (call.raised /\ call.out = <<>>)

C19_CacheHoldsPersisted ==
    (last.op \in {"upsert", "upsert_multi"} /\ last.fault = "none" /\ last.added # {})
        => \A d \in last.added :
              /\ d.source \in DOMAIN fpCache
              /\ \E s \in DOMAIN fpCache : s = d.source /\ fpCache[s] = d.fp

\* C20: a load_store_by_space_key(K) on a manager that has loaded K before
\* constructs no handle and starts no scan of the store.
C20_SpaceOpenedOnce ==
    (last.op = "load" /\ last.loadedBefore) => (last.opens = 0 /\ last.scans = 0)

\* C26: an upsert or upsert_multi that fails leaves in every collection the
\* document ids that were there before the call.
C26_FailedUpsertKeepsIds ==
    [][(last'.op \in {"upsert", "upsert_multi"} /\ last'.failed)
          => \A k \in Spaces : Ids(coll'[k]) = Ids(coll[k])]_vars

\* C30: a load_store_by_space_key that raises leaves the active space and the
\* opened spaces of the manager as they were before the call.
C30_FailedLoadKeepsActive ==
    [][(last'.op = "load" /\ last'.raised) => (active' = active /\ stores' = stores)]_vars

(***************************************************************************)
(* URL ingest: the page is ingested again and again, the manager is        *)
(* rebuilt in between.                                                     *)
(***************************************************************************)
UrlInit == StoreInit /\ LockInit /\ CallInit

\* The clock readings later than every download stored so far
Clock(url) ==
    {t \in 1..MaxClock : \A d \in StoredOf(coll, url) : d.fp.mtime < t}

\* POST /v1/ingest/url
IngestUrl(url, fetchOk, now, fault, o) ==
    LET r == ingest_from_url(CallStart, embed, checkUpdate, url, fetchOk, now, fault, o) IN
    /\ Commit(r)
    /\ last' = [Observed("ingest_url", url, "", fault, r) EXCEPT !.fetchOk = fetchOk]
    /\ UNCHANGED <<fs, checkUpdate, loadLimit, embed, ingested>>
    /\ UNCHANGED nonStoreVars

UrlNext ==
    \/ \E u \in Urls, fetchOk \in BOOLEAN, fault \in Faults, o \in Oracles :
          \E now \in Clock(u) : IngestUrl(u, fetchOk, now, fault, o)
    \/ ReloadStore

SpecUrl == UrlInit /\ [][UrlNext]_vars

\* C13: with check_update=true every ingest of the URL fetches it and, when
\* the fetch gives documents, deletes and adds every one of them; with
\* check_update=false the ingest is skipped (no fetch, no delete, no add)
\* exactly when the URL is in the fingerprint cache.
C13_UrlReingest ==
    (last.op = "ingest_url" /\ last.fault = "none")
        => /\ checkUpdate =>
                /\ last.fetched
                /\ last.fetchOk => /\ last.loaded # {}
                                   /\ last.loaded \subseteq last.added
                                   /\ last.loaded \subseteq StoredOf(coll, last.path)
                                   /\ last.nDel = last.nAdd
           /\ ~checkUpdate =>
                ((~last.fetched /\ last.nDel = 0 /\ last.nAdd = 0) <=> last.present)

(***************************************************************************)
(* embed/util.py: the space key.  A string is the sequence of its          *)
(* characters.                                                             *)
(***************************************************************************)
AlnumChars ==
    {"0", "1", "2", "3", "4", "5", "6", "7", "8", "9",
     "a", "b", "c", "d", "e", "f", "g", "h", "i", "j", "k", "l", "m",
     "n", "o", "p", "q", "r", "s", "t", "u", "v", "w", "x", "y", "z",
     "A", "B", "C", "D", "E", "F", "G", "H", "I", "J", "K", "L", "M",
     "N", "O", "P", "Q", "R", "S", "T", "U", "V", "W", "X", "Y", "Z"}

\* the set `allowed'
AllowedChars == AlnumChars \cup {".", "_", "-"}

is_alnum(ch) == ch \in AlnumChars

KeyLimit == 512

\* the sanitisation without the trim to 512 characters
sanitize_untrimmed(space_key) ==
    IF space_key = <<>> THEN <<"0", "0", "0">>
    ELSE LET replaced == [i \in 1..Len(space_key) |->
                             IF space_key[i] \in AllowedChars THEN space_key[i] ELSE "_"]
             head == [replaced EXCEPT ![1] = IF is_alnum(@) THEN @ ELSE "0"]
             tail == [head EXCEPT ![Len(head)] = IF is_alnum(@) THEN @ ELSE "0"]
         IN  tail \o [i \in 1..(3 - Len(tail)) |-> "0"]

sanitize_space_key(space_key) ==
    IF space_key = <<>> THEN <<"0", "0", "0">>
    ELSE LET replaced == [i \in 1..Len(space_key) |->
                             IF space_key[i] \in AllowedChars THEN space_key[i] ELSE "_"]
             trimmed == IF Len(replaced) > KeyLimit THEN SubSeq(replaced, 1, KeyLimit)
                        ELSE replaced
             head == [trimmed EXCEPT ![1] = IF is_alnum(@) THEN @ ELSE "0"]
             tail == [head EXCEPT ![Len(head)] = IF is_alnum(@) THEN @ ELSE "0"]
         IN  tail \o [i \in 1..(3 - Len(tail)) |-> "0"]

\* the characters of the embed_type
EmbTypeChars(t) ==
    IF t = EMBTYPE_TEXT THEN <<"t", "e", "x", "t">> ELSE <<"i", "m", "a", "g", "e">>

generate_space_key(embed_name, model_name, embed_type) ==
    sanitize_space_key(embed_name \o <<"_", "_">> \o model_name \o <<"_", "_">>
                       \o EmbTypeChars(embed_type))

StringsOver(chars, n) == UNION {[1..k -> chars] : k \in 0..n}

\* Inputs of the sanitisation: short strings, and strings around the limit.
Filler(n) == [i \in 1..n |-> "a"]
RawStrings ==
    LET chars == {"a", "0", ".", "/"} IN
    StringsOver(chars, MaxRawLen)
        \cup {t \o Filler(n) \o u : n \in (KeyLimit - 2)..KeyLimit,
                                    t \in StringsOver(chars, 1),
                                    u \in StringsOver(chars, MaxRawLen)}

SanitizeInit ==
    /\ StoreInit /\ LockInit
    /\ call \in [op : {"sanitize"}, raw : RawStrings, done : {FALSE}, out : {<<>>}]

Sanitize ==
    /\ call.op = "sanitize"
    /\ ~call.done
    /\ call' = [call EXCEPT !.done = TRUE, !.out = sanitize_space_key(call.raw)]
    /\ UNCHANGED nonCallVars

SpecSanitize == SanitizeInit /\ [][Sanitize]_vars

\* C16: the sanitised space key has 3 to 512 characters, all of them in
\* [A-Za-z0-9._-], the first and the last alphanumeric, whatever the input.
C16_SpaceKeyGrammar ==
    (call.op = "sanitize" /\ call.done)
        => /\ Len(call.out) >= 3
           /\ Len(call.out) <= 512
           /\ \A i \in 1..Len(call.out) : call.out[i] \in AllowedChars
           /\ is_alnum(call.out[1])
           /\ is_alnum(call.out[Len(call.out)])

\* An input longer than the limit, with a disallowed first character and a
\* punctuation character at the cut, was sanitised.
C16_Witness ==
    /\ call.op = "sanitize"
    /\ call.done
    /\ Len(call.raw) > 512
    /\ call.raw[1] = "/"
    /\ call.raw[512] = "."
    /\ Len(call.out) = 512

\* Names of providers and models
Triples ==
    LET names == StringsOver({"a", "_", "/"}, MaxNameLen) IN
    names \X names \X {EMBTYPE_TEXT, EMBTYPE_IMAGE}

KeyInit ==
    /\ StoreInit /\ LockInit
    /\ call \in [op : {"key"}, a : Triples, b : Triples, done : {FALSE},
                 ka : {<<>>}, kb : {<<>>}]

GenerateKeys ==
    /\ call.op = "key"
    /\ ~call.done
    /\ call' = [call EXCEPT !.done = TRUE,
                            !.ka = generate_space_key(call.a[1], call.a[2], call.a[3]),
                            !.kb = generate_space_key(call.b[1], call.b[2], call.b[3])]
    /\ UNCHANGED nonCallVars

SpecKey == KeyInit /\ [][GenerateKeys]_vars

\* C15: two triples (provider, model, embed_type) that differ in a component
\* get different space keys.
C15_SpaceKeysInjective ==
    (call.op = "key" /\ call.done /\ call.a # call.b) => call.ka # call.kb

(***************************************************************************)
(* main.py: the globals _store, _embed and _rerank, POST /v1/reload and    *)
(* GET /v1/health.  A component is represented by the name its constructor *)
(* passes to the base class (get_name); _rerank may be None.  `env' is the *)
(* validated configuration get_config() reads from the environment at each *)
(* call; `ok' is false when get_config() or the constructor raises.        *)
(***************************************************************************)
allowed_stores == {"chroma", "pgvector"}
allowed_embeds == {"local", "openai", "cohere"}
allowed_rerank == {"local", "cohere", "none"}

\* _rerank = None
NoRerank == "None"

\* LocalRerankManager.get_name()
LocalRerankManagerName == "local"

\* `if name: cfg.<field> = name'
Override(name, configured) == IF name # "" THEN name ELSE configured

create_store(env, name, ok) ==
    LET vector_store == Override(name, env.store) IN
    IF ~ok THEN "raised"
    ELSE IF vector_store = "pgvector" THEN "pgvector"
    ELSE IF vector_store = "chroma" THEN "chroma"
    ELSE "raised"

create_embed(env, name, ok) ==
    LET emped_provider == Override(name, env.embed) IN
    IF ~ok THEN "raised"
    ELSE IF emped_provider = "openai" THEN "openai"
    ELSE IF emped_provider = "cohere" THEN "cohere"
    ELSE IF emped_provider = "local" THEN "local"
    ELSE "raised"

create_rerank(env, name, ok) ==
    LET rerank_provider == Override(name, env.rerank) IN
    IF ~ok THEN "raised"
    ELSE IF rerank_provider = "local" THEN LocalRerankManagerName
    ELSE IF rerank_provider = "cohere" THEN "cohere"
    ELSE NoRerank

\* reload: [status, comp]
reload(comp, env, target, name, ok) ==
    LET made == IF target = "store" THEN create_store(env, name, ok)
                ELSE IF target = "embed" THEN create_embed(env, name, ok)
                ELSE IF target = "rerank" THEN create_rerank(env, name, ok)
                ELSE "raised" IN
    IF made = "raised" THEN [status |-> 500, comp |-> comp]
    ELSE [status |-> 200, comp |-> [comp EXCEPT ![target] = made]]

health(comp) ==
    [status |-> "ok", store |-> comp.store, embed |-> comp.embed,
     rerank |-> IF comp.rerank # NoRerank THEN comp.rerank ELSE "none"]

Envs == [store : allowed_stores, embed : allowed_embeds, rerank : allowed_rerank]

\* the module-level _create_store(), _create_embed(), _create_rerank()
Startup(env) ==
    [store |-> create_store(env, "", TRUE), embed |-> create_embed(env, "", TRUE),
     rerank |-> create_rerank(env, "", TRUE)]

ReloadInit ==
    /\ StoreInit /\ LockInit
    /\ \E env \in Envs :
          call = [op |-> "reload", env |-> env, comp |-> Startup(env),
                  before |-> Startup(env), target |-> "", name |-> "", status |-> 0]

Reload(target, name, ok) ==
    LET r == reload(call.comp, call.env, target, name, ok) IN
    /\ call.op = "reload"
    /\ call' = [call EXCEPT !.comp = r.comp, !.before = call.comp, !.target = target,
                            !.name = name, !.status = r.status]
    /\ IF r.status = 200 /\ target = "store"
       THEN stores' = <<>> /\ active' = "" /\ fpCache' = <<>>
       ELSE UNCHANGED <<stores, active, fpCache>>
    /\ UNCHANGED <<fs, coll, checkUpdate, loadLimit, embed, ingested, last>>
    /\ UNCHANGED lockVars

ReloadNext ==
    \E target \in {"store", "embed", "rerank", "all"},
       name \in allowed_stores \cup allowed_embeds \cup allowed_rerank \cup {"", "bogus"},
       ok \in BOOLEAN : Reload(target, name, ok)

SpecReload == ReloadInit /\ [][ReloadNext]_vars

\* C17: after a successful reload of target T with name N, /v1/health reports
\* N for T and the names it reported before for the other two components.
C17_HealthReportsReloaded ==
    (call.op = "reload" /\ call.status = 200)
        => \A t \in {"store", "embed", "rerank"} :
              health(call.comp)[t] = IF t = call.target THEN call.name
                                     ELSE health(call.before)[t]

\* C18: a reload whose target is not store, embed or rerank, or whose name
\* is not an allowed provider of its target, is refused with an error and
\* leaves the three components as they were.
C18_InvalidReloadRefused ==
    LET allowed == IF call.target = "store" THEN allowed_stores
                   ELSE IF call.target = "embed" THEN allowed_embeds
                   ELSE IF call.target = "rerank" THEN allowed_rerank
                   ELSE {} IN
    (call.op = "reload" /\ call.status # 0 /\ call.name \notin allowed)
        => /\ call.status = 500
           /\ call.comp = call.before

(***************************************************************************)
(* The order of the steps of one ingest call, as logged in `steps'.        *)
(***************************************************************************)
\* C21: an ingest loads the text space, then (multimodal embedder) the image
\* space, then asks the loader, then upserts the image documents, then the
\* text documents, each step at most once and in that order; a failure of a
\* load or of the image upsert raises and is the last step of the call.
C21_IngestStepOrder ==
    LET sk == space_key_text(embed)
        skm == space_key_multi(embed)
        canon == << <<"load", sk>>, <<"load", skm>>, <<"loader", last.path>>,
                    <<"upsert_multi", skm>>, <<"upsert", sk>> >>
        rank(x) == CHOOSE i \in 1..Len(canon) : canon[i] = x
        n == Len(last.steps) IN
    last.op = "ingest"
        => /\ \A i \in 1..n : \E j \in 1..Len(canon) : canon[j] = last.steps[i]
           /\ \A i \in 1..n : \A j \in (i + 1)..n : rank(last.steps[i]) < rank(last.steps[j])
           /\ n >= 1 /\ last.steps[1] = <<"load", sk>>
           /\ (n >= 2 /\ IsMultimodal(embed)) => last.steps[2] = <<"load", skm>>
           /\ ~IsMultimodal(embed)
                 => \A i \in 1..n : last.steps[i][1] \notin {"upsert_multi"}
                                    /\ last.steps[i] # <<"load", skm>>
           /\ last.fault \in {"open_text", "scan_text"}
                 => (last.raised /\ n = 1)
           /\ (IsMultimodal(embed) /\ last.fault \in {"open_multi", "scan_multi"})
                 => (last.raised /\ n = 2)
           /\ (last.fault \in {"multi_delete", "multi_add"} /\ last.failed)
                 => (last.raised /\ last.steps[n] = <<"upsert_multi", skm>>)

\* The image upsert of a PDF failed at the add: the call raised after four steps.
C21_Witness ==
    /\ last.op = "ingest"
    /\ last.path = "b.pdf"
    /\ last.fault = "multi_add"
    /\ last.failed
    /\ last.raised
    /\ Len(last.steps) = 4

(***************************************************************************)
(* FileLoader.load_from_path on a directory: the loop over _iter_files.    *)
(* A file is its kind ("text", "image", "pdf", "other": an unsupported     *)
(* extension, "broken": a supported file whose loader raises); the         *)
(* documents of file i are represented by i.  buf_text and buf_image are   *)
(* locals of the function: unbound until a branch assigns them, and kept   *)
(* from one iteration to the next.                                         *)
(***************************************************************************)
WalkStart ==
    [raised |-> FALSE, bound |-> FALSE, buf_text |-> <<>>, buf_image |-> <<>>,
     text_docs |-> <<>>, image_docs |-> <<>>, source_cache |-> {}]

\* the loop body for file i; multi: a space_key_multi was given
WalkFile(st, ext, i, multi) ==
    LET assigned ==
            IF ext = "text" THEN [st EXCEPT !.bound = TRUE, !.buf_text = <<i>>,
                                             !.buf_image = <<>>]
            ELSE IF ext = "image" /\ multi
            THEN [st EXCEPT !.bound = TRUE, !.buf_text = <<>>, !.buf_image = <<i>>]
            ELSE IF ext = "pdf"
            THEN [st EXCEPT !.bound = TRUE, !.buf_text = <<i>>,
                            !.buf_image = IF multi THEN <<i>> ELSE <<>>]
            ELSE st IN
    IF st.raised \/ i \in st.source_cache \/ ext = "broken" THEN st
    ELSE IF ~assigned.bound THEN [st EXCEPT !.raised = TRUE]
    ELSE [assigned EXCEPT !.text_docs = @ \o assigned.buf_text,
                          !.image_docs = @ \o assigned.buf_image,
                          !.source_cache = @ \cup {i}]

RECURSIVE load_from_dir(_, _, _, _)
load_from_dir(st, files, i, multi) ==
    IF i > Len(files) THEN st
    ELSE load_from_dir(WalkFile(st, files[i], i, multi), files, i + 1, multi)

WalkInit ==
    /\ StoreInit /\ LockInit
    /\ call \in [op : {"walk"},
                 files : UNION {[1..n -> {"text", "image", "pdf", "other", "broken"}]
                                  : n \in 0..MaxFiles},
                 multi : BOOLEAN, done : {FALSE}, out : {WalkStart}]

Walk ==
    /\ call.op = "walk"
    /\ ~call.done
    /\ call' = [call EXCEPT !.done = TRUE,
                            !.out = load_from_dir(WalkStart, call.files, 1, call.multi)]
    /\ UNCHANGED nonCallVars

SpecWalk == WalkInit /\ [][Walk]_vars

\* C22: load_from_path does not raise on an unsupported file (or an image
\* without a multimodal space), and returns the documents of exactly the
\* other files, each once, in the order of the walk.
C22_UnsupportedSkipped ==
    LET gives(i, kinds) == call.files[i] \in kinds
        idx == [i \in 1..Len(call.files) |-> i]
        textOf(i) == gives(i, {"text", "pdf"})
        imageOf(i) == call.multi /\ gives(i, {"image", "pdf"}) IN
    (call.op = "walk" /\ call.done)
        => /\ ~call.out.raised
           /\ call.out.text_docs = SelectSeq(idx, textOf)
           /\ call.out.image_docs = SelectSeq(idx, imageOf)

(***************************************************************************)
(* HTMLLoader.load_from_url and load_from_url_list with a fresh store (no  *)
(* source is skipped by skip_update).  The web: two pages that both link   *)
(* the image logo.png, and a sitemap whose <loc> entries are the two       *)
(* pages.  w = [down, multi, assets]: the URL whose fetch fails (the       *)
(* request or the loader raises), whether a space_key_multi is given, and  *)
(* the loader's load_asset option.  The documents of a URL are represented *)
(* by the URL; `fetched' lists the URLs fetched and turned into documents. *)
(***************************************************************************)
SiteStart ==
    [source_cache |-> {}, text_docs |-> <<>>, image_docs |-> <<>>, fetched |-> <<>>,
     raised |-> FALSE]

\* _load_direct_linked_file of an image URL
SiteDirectLinked(st, url, w) ==
    IF url = w.down \/ ~w.multi THEN st
    ELSE [st EXCEPT !.image_docs = Append(@, url), !.fetched = Append(@, url)]

\* _load_html_asset_files: the loop over the gathered links
RECURSIVE SiteAssets(_, _, _, _)
SiteAssets(st, links, i, w) ==
    IF i > Len(links) THEN st
    ELSE IF links[i] \in st.source_cache THEN SiteAssets(st, links, i + 1, w)
    ELSE SiteAssets([SiteDirectLinked(st, links[i], w) EXCEPT !.source_cache = @ \cup {links[i]}],
                    links, i + 1, w)

\* _load_from_site
SiteLoad(st, url, w) ==
    LET links == IF url = w.down THEN <<>> ELSE <<"http://site/logo.png">>
        text == IF url = w.down THEN st
                ELSE [st EXCEPT !.text_docs = Append(@, url), !.fetched = Append(@, url)] IN
    IF IsFileUrl(url) THEN SiteDirectLinked(st, url, w)
    ELSE IF w.assets THEN SiteAssets(text, links, 1, w)
    ELSE text

\* the loop over the <loc> entries left at the first URL whose fetch fails
RECURSIVE SitemapLoopAborting(_, _, _, _)
SitemapLoopAborting(st, urls, i, w) ==
    IF i > Len(urls) \/ urls[i] = w.down THEN st
    ELSE SitemapLoopAborting(SiteLoad(st, urls[i], w), urls, i + 1, w)

\* load_from_url on a sitemap: the loop over the <loc> entries
RECURSIVE SitemapLoop(_, _, _, _)
SitemapLoop(st, urls, i, w) ==
    IF i > Len(urls) THEN st
    ELSE SitemapLoop(SiteLoad(st, urls[i], w), urls, i + 1, w)

load_from_url(st, url, w) ==
    IF url # "http://site/sitemap.xml" THEN SiteLoad(st, url, w)
    ELSE IF url = w.down THEN st
    ELSE SitemapLoop([st EXCEPT !.source_cache = {}],
                     <<"http://site/p1", "http://site/p2">>, 1, w)

RECURSIVE load_from_url_list(_, _, _, _)
load_from_url_list(st, urls, i, w) ==
    LET s0 == IF i = 1 THEN [st EXCEPT !.source_cache = {}] ELSE st IN
    IF i > Len(urls) THEN s0
    ELSE load_from_url_list(load_from_url(s0, urls[i], w), urls, i + 1, w)

SiteInit ==
    /\ StoreInit /\ LockInit
    /\ \E urls \in UNION {[1..n -> {"http://site/p1", "http://site/p2",
                                     "http://site/logo.png", "http://site/sitemap.xml"}]
                             : n \in 0..MaxUrls},
          down \in {"", "http://site/p1", "http://site/p2", "http://site/logo.png",
                    "http://site/sitemap.xml"},
          multi \in BOOLEAN, assets \in BOOLEAN :
          call = [op |-> "url_list", urls |-> urls,
                  w |-> [down |-> down, multi |-> multi, assets |-> assets],
                  done |-> FALSE, out |-> SiteStart]

LoadUrlList ==
    /\ call.op = "url_list"
    /\ ~call.done
    /\ call' = [call EXCEPT !.done = TRUE,
                            !.out = load_from_url_list(SiteStart, call.urls, 1, call.w)]
    /\ UNCHANGED nonCallVars

SpecSite == SiteInit /\ [][LoadUrlList]_vars

\* C23: in one load_from_url_list call no URL is fetched and turned into
\* documents more than once.
C23_NoUrlFetchedTwice ==
    (call.op = "url_list" /\ call.done)
        => \A i, j \in 1..Len(call.out.fetched) :
              call.out.fetched[i] = call.out.fetched[j] => i = j

embed_image(paths, bad, fail) ==
    LET inputs == SelectSeq(paths, LAMBDA p : p \notin bad) IN
    IF Len(paths) = 0 \/ Len(inputs) = 0 \/ fail THEN <<>>
    ELSE [i \in 1..Len(inputs) |-> [of |-> inputs[i]]]

\* PgVectorManager.add_images: add_embeddings(uris, embeddings=vecs, ids=ids)
\* stores the lists pairwise by position.  The Chroma backend refuses lists
\* of different lengths.
add_images(backend, uris, bad, fail) ==
    LET vecs == embed_image(uris, bad, fail)
        n == Min(Len(uris), Len(vecs)) IN
    IF backend = "pgvector"
    THEN [raised |-> FALSE, rows |-> [i \in 1..n |-> [uri |-> uris[i], vec |-> vecs[i]]]]
    ELSE IF Len(vecs) # Len(uris) THEN [raised |-> TRUE, rows |-> <<>>]
    ELSE [raised |-> FALSE, rows |-> [i \in 1..n |-> [uri |-> uris[i], vec |-> vecs[i]]]]

\* upsert_multi, try / finally: whatever add_images did, every uri that is a
\* file and whose basename starts with PROJECT_NAME + "_" is removed.
upsert_multi_files(backend, uris, bad, fail, files) ==
    LET r == add_images(backend, uris, bad, fail)
        prefixed == {"ragserver_logo.png", "/tmp/ragserver_t.png"} IN
    [raised |-> r.raised, rows |-> r.rows,
     files |-> files \ {u \in Range(uris) : u \in files /\ u \in prefixed}]

ImagesInit ==
    /\ StoreInit /\ LockInit
    /\ call \in [op : {"images"}, backend : {"chroma", "pgvector"},
                 uris : {q \in UNION {[1..n -> {"photo.png", "ragserver_logo.png",
                                                "/tmp/ragserver_t.png"}] : n \in 1..MaxImages} :
                            \A i, j \in DOMAIN q : q[i] = q[j] => i = j},
                 bad : SUBSET {"photo.png", "ragserver_logo.png", "/tmp/ragserver_t.png"},
                 fail : BOOLEAN, done : {FALSE},
                 out : {[raised |-> FALSE, rows |-> <<>>,
                         files |-> {"photo.png", "ragserver_logo.png",
                                    "/tmp/ragserver_t.png"}]}]

UpsertImages ==
    /\ call.op = "images"
    /\ ~call.done
    /\ call' = [call EXCEPT !.done = TRUE,
                            !.out = upsert_multi_files(call.backend, call.uris, call.bad,
                                                       call.fail, call.out.files)]
    /\ UNCHANGED nonCallVars

SpecImages == ImagesInit /\ [][UpsertImages]_vars

\* C27: every row stored by upsert_multi holds the embedding of the image at
\* the row's own path, also when the embedder skipped another image of the batch.
C27_VectorOfOwnImage ==
    call.done => \A i \in DOMAIN call.out.rows :
                    call.out.rows[i].vec = [of |-> call.out.rows[i].uri]

\* C28: upsert_multi removes temp files of the loader only; the image files of
\* the user are still there after the call, whatever their names.
C28_UserImageSurvives ==
    call.done => {"photo.png", "ragserver_logo.png"} \subseteq call.out.files

(***************************************************************************)
(* main.py: which components a handler works with.  _store, _embed and     *)
(* _rerank are module globals; reload rebinds them under _request_lock.    *)
(* ingest_path builds its FileLoader(store=_store) and query_text_multi    *)
(* tests isinstance(_embed, MultimodalEmbeddingsManager) before the        *)
(* `await run_in_threadpool(_request_lock.acquire)'; both read _store and  *)
(* _embed again, as call arguments, once the lock is held.  _store and     *)
(* _rerank are numbered by the reloads that built them.                    *)
(***************************************************************************)
NoUse == [store |-> IntDefault, embed |-> "", loader |-> IntDefault, checked |-> ""]

HandlersInit ==
    /\ StoreInit /\ LockInit
    /\ call \in [op : {"handlers"}, store : {0}, embed : Embedders, rerank : {0},
                 loader : {[r \in Requests |-> IntDefault]},
                 checked : {[r \in Requests |-> ""]},
                 payload : {[r \in Requests |-> [target |-> "", name |-> ""]]},
                 used : {[r \in Requests |-> NoUse]}]

\* The handler runs up to its await on the lock: the code before the await
\* reads the globals as they are now.
HandlerEnter(r, k, target, name) ==
    /\ pc[r] = "idle"
    /\ kind' = [kind EXCEPT ![r] = k]
    /\ IF k = "query" /\ ~IsMultimodal(call.embed)
       THEN /\ pc' = [pc EXCEPT ![r] = "refused"]
            /\ UNCHANGED <<acq, call>>
       ELSE /\ pc' = [pc EXCEPT ![r] = "acquiring"]
            /\ acq' = acq \cup {r}
            /\ call' = IF k = "ingest" THEN [call EXCEPT !.loader[r] = call.store]
                       ELSE IF k = "query" THEN [call EXCEPT !.checked[r] = call.embed]
                       ELSE [call EXCEPT !.payload[r] = [target |-> target, name |-> name]]
    /\ UNCHANGED <<lock, running, pending, storeVars>>

\* The worker thread's _request_lock.acquire() returns.
HandlerAcquire(r) ==
    /\ r \in acq
    /\ ~lock
    /\ lock' = TRUE
    /\ acq' = acq \ {r}
    /\ pc' = [pc EXCEPT ![r] = "holding"]
    /\ UNCHANGED <<kind, running, pending, storeVars, call>>

\* The try block with the lock held, and the release in its finally clause.
HandlerCore(r) ==
    /\ pc[r] = "holding"
    /\ pc' = [pc EXCEPT ![r] = "done"]
    /\ lock' = FALSE
    /\ call' = IF kind[r] = "reload"
               THEN IF call.payload[r].target = "store" THEN [call EXCEPT !.store = @ + 1]
                    ELSE IF call.payload[r].target = "embed"
                    THEN [call EXCEPT !.embed = call.payload[r].name]
                    ELSE [call EXCEPT !.rerank = @ + 1]
               ELSE [call EXCEPT !.used[r] = [store |-> call.store, embed |-> call.embed,
                                              loader |-> call.loader[r],
                                              checked |-> call.checked[r]]]
    /\ UNCHANGED <<kind, acq, running, pending, storeVars>>

SpecHandlers ==
    /\ HandlersInit
    /\ [][\/ \E r \in Requests, k \in {"ingest", "query"} : HandlerEnter(r, k, "", "")
          \/ \E r \in Requests, target \in {"store", "embed", "rerank"}, name \in Embedders :
                HandlerEnter(r, "reload", target, name)
          \/ \E r \in Requests : HandlerAcquire(r)
          \/ \E r \in Requests : HandlerCore(r)]_vars

\* C29: the store an ingest request's loader consults is the store its upserts
\* go to, and the embedder a multimodal query tested is the embedder it uses,
\* however reloads interleave.
C29_ConsistentComponents ==
    \A r \in Requests :
        pc[r] = "done" =>
            /\ kind[r] = "ingest" => call.used[r].loader = call.used[r].store
            /\ kind[r] = "query" => call.used[r].checked = call.used[r].embed

====
